---- MODULE Spec2Model ----
(***************************************************************************)
(* OpenEphysInterface (MWorks I/O device): the start/stop lifecycle, the   *)
(* event-handler thread's loop (drive step, stall check, receive and       *)
(* route, interruption point) and the clock-synchronisation state it owns. *)
(***************************************************************************)
EXTENDS Integers, Sequences, FiniteSets, TLC

(***************************************************************************)
(* Program constants.                                                      *)
(***************************************************************************)
\* OpenEphysInterface.cpp:211
syncReceiptCheckInterval == 5000000
\* used at OpenEphysInterface.cpp:139,216; its declaration is not in the
\* sources at hand (default sync interval: one second)
syncInterval == 1000000
\* used at OpenEphysInterface.cpp:145,254; declaration not in the sources
TTL == 3
\* OpenEphysInterface.h:36
SPIKE == 4
\* OpenEphysInterface.cpp:102: channel numbers are 1..8
MaxSyncChannelNumber == 8

(***************************************************************************)
(* Bounds of the model.                                                    *)
(***************************************************************************)
\* longest sync channel list offered to the constructor
MaxChannels == 2
\* the host clock reads ClockStartTicks granules at construction and is
\* followed up to MaxTicks granules (a granule is the receive timeout)
ClockStartTicks == 1
MaxTicks == 3
\* the long-horizon specification counts coarse granules
MaxStallTicks == 5

\* caller threads that may invoke startDeviceIO/stopDeviceIO concurrently
Callers == {"c1", "c2"}
NoCaller == "nobody"

\* zmq receive timeout in microseconds (initialize: ms = (syncInterval/2)/1000)
RecvTimeoutUS == ((syncInterval \div 2) \div 1000) * 1000
\* clock granule of the long-horizon specification
CoarseTickUS == syncReceiptCheckInterval \div 2

(***************************************************************************)
(* Pure helpers, computed as the code computes them.                       *)
(***************************************************************************)
RECURSIVE Pow2(_)
Pow2(k) == IF k = 0 THEN 1 ELSE 2 * Pow2(k - 1)

\* (v & (1 << i)) >> i
BitAt(v, i) == (v \div Pow2(i)) % 2

\* v | mask, v & ~mask for a one-bit mask 1 << k
OrMask(v, k) == IF BitAt(v, k) = 1 THEN v ELSE v + Pow2(k)
AndNotMask(v, k) == IF BitAt(v, k) = 1 THEN v - Pow2(k) ELSE v

\* the loop of lines 219-223: r <<= 1; r |= (v & (1 << i)) >> i
RECURSIVE ReverseLoop(_, _, _, _)
ReverseLoop(v, n, i, r) ==
    IF i >= n THEN r ELSE ReverseLoop(v, n, i + 1, 2 * r + BitAt(v, i))

\* faulty variant: the code is written as it is, not reversed
reversedSyncValueStraight(v, n) == v

reversedSyncValue(v, n) == ReverseLoop(v, n, 0, 0)

\* Remote timestamps are doubles in seconds; the model carries them as a
\* whole number of quarter-microseconds, and MWTime(timestamp * 1e6)
\* truncates toward zero.
secsToUS(q) == IF q >= 0 THEN q \div 4 ELSE -((-q) \div 4)

(***************************************************************************)
(* Constructor: validation of the sync channel list.                       *)
(***************************************************************************)
\* the constructor throws SimpleException
ConstructionFailed == << -1 >>

RECURSIVE ConstructFrom(_, _)
ConstructFrom(values, acc) ==
    IF values = << >>
    THEN IF acc = << >> THEN ConstructionFailed ELSE acc
    ELSE LET channelNumber == Head(values) IN
         IF channelNumber < 1 \/ channelNumber > MaxSyncChannelNumber
         THEN ConstructionFailed
         ELSE IF acc # << >> /\ channelNumber <= acc[Len(acc)]
         THEN ConstructionFailed
         ELSE ConstructFrom(Tail(values), Append(acc, channelNumber - 1))

Construct(values) == ConstructFrom(values, << >>)

\* sync_channels values offered to the constructor (0 and 9 are out of range)
ChannelNumbers == (0..MaxChannels) \cup {MaxSyncChannelNumber + 1}

Lists(S, n) == UNION {[1..k -> S] : k \in 0..n}

SyncChannelLists == Lists(ChannelNumbers, MaxChannels)

ValidSyncChannels == {Construct(l) : l \in SyncChannelLists} \ {ConstructionFailed}

(***************************************************************************)
(* Inputs of the environment.                                              *)
(***************************************************************************)
\* event timestamps, in quarter-microseconds
RemoteStamps == {7, 1000002}
\* TTL payload: line state and 0-based channel
LineStates == {0, 1}
EventChannels == 0..MaxChannels
\* sizeof(OpenEphysEvent): the packed Spike struct, two 8-byte and six
\* 2-byte fields
SpikeSize == 2 * 8 + 6 * 2
\* spike payloads as sent: the fields the sender wrote (timestamp, sortedID,
\* electrodeID, channel; the others are not read) and the number of bytes
\* of the third message part: the whole struct, or one byte short
SpikeSizes == {SpikeSize - 1, SpikeSize}
SpikePayloads ==
    {[timestamp |-> 123456, sortedID |-> 7, electrodeID |-> 12, channel |-> 3,
      size |-> z] : z \in SpikeSizes}
\* type tags other than TTL and SPIKE
OtherTags == {9}

NoMatch == [sentTime |-> 0, stamp |-> 0, valid |-> FALSE]
NoSession == [lastSyncValue |-> 0, oeClockOffset |-> 0]
NoResult == [op |-> "none", ok |-> TRUE]
Result(op, ok) == [op |-> op, ok |-> ok]

VARIABLES
    \* configuration: the sync_channels parameter as a list of numbers; what
    \* the constructor made of it, the 0-based sync channels in list order
    \* (empty until the constructor has run, ConstructionFailed when it
    \* threw); and whether a spikes variable was given
    syncChannelsValues, syncChannels, spikes,
    \* zmqSocket ("none" before initialize, then "ready" or "failed"), whether
    \* it is connected to the endpoint, the running flag, the holder of the
    \* mutex, where each caller is inside startDeviceIO/stopDeviceIO, and the
    \* value returned by the call that returned last
    socket, connected, running, mutex, callerPc, lastResult,
    \* eventHandlerThread: "none" (not joinable), "running", or "done" (the
    \* thread function ended, not yet joined); its interruption request
    thread, interruptRequested,
    \* the host clock, microseconds
    now,
    \* where the thread is in handleEvents, and the locals of handleEvents
    \* (zero while no thread runs)
    tpc, lastSyncTime, lastSyncValue, currentOESyncValue, oeClockOffset,
    lastSyncReceivedTime, lastSyncReceiptCheckTime,
    \* the value of the sync variable; the spike records and the diagnostic
    \* that the thread's latest step handed to spikes->setValue and merror
    syncOut, published, diag,
    \* history, read by the properties only: progress of the echo of the
    \* driven code and the ClockOffset updates during it, the latest match
    \* of the session, the latest stall diagnostic, what the thread did
    \* after interrupt(), the code sent and the clock offset of a thread
    \* that has ended as they were when it ended (until the next thread has
    \* set its own), and whether the thread before the present one ended
    \* with a code out and an offset in force
    fbPos, offsetUpdates, lastMatch, lastStallTime, afterInterrupt,
    lastSession, followsSynced

cfgVars == <<syncChannelsValues, syncChannels, spikes>>
lifeVars == <<socket, connected, running, mutex, callerPc, lastResult>>
thrVars == <<thread, interruptRequested>>
localVars == <<lastSyncTime, lastSyncValue, currentOESyncValue, oeClockOffset,
               lastSyncReceivedTime, lastSyncReceiptCheckTime>>
outVars == <<syncOut, published, diag>>
histVars == <<fbPos, offsetUpdates, lastMatch, lastStallTime, afterInterrupt,
              lastSession, followsSynced>>
vars == <<cfgVars, lifeVars, thrVars, now, tpc, localVars, outVars, histVars>>

numSyncValues == Pow2(Len(syncChannels))

TypeOK ==
    /\ syncChannelsValues \in SyncChannelLists
    /\ syncChannels \in ValidSyncChannels
    /\ spikes \in BOOLEAN
    /\ socket \in {"none", "ready", "failed"}
    /\ connected \in BOOLEAN
    /\ running \in BOOLEAN
    /\ mutex \in Callers \cup {NoCaller}
    /\ callerPc \in [Callers -> {"idle", "start_spawn", "stop_join", "stop_disconnect"}]
    /\ thread \in {"none", "running", "done"}
    /\ interruptRequested \in BOOLEAN
    /\ now \in Nat
    /\ tpc \in {"none", "begin", "drive", "stamp", "stall", "recv", "intr"}
    /\ lastSyncValue \in 0..(numSyncValues - 1)
    /\ currentOESyncValue \in 0..(numSyncValues - 1)
    /\ syncOut \in 0..(numSyncValues - 1)
    /\ diag \in {"none", "stall", "recvfail", "mismatch", "unexpected"}
    /\ fbPos \in -1..Len(syncChannels)
    /\ offsetUpdates \in 0..2

(***************************************************************************)
(* Initial state: the device has been constructed (the sync channel list   *)
(* passed validation), initialize() has not run, no thread exists.         *)
(***************************************************************************)
Unstarted(granule) ==
    /\ spikes \in BOOLEAN
    /\ socket = "none"
    /\ connected = FALSE
    /\ running = FALSE
    /\ mutex = NoCaller
    /\ callerPc = [c \in Callers |-> "idle"]
    /\ lastResult = NoResult
    /\ thread = "none"
    /\ interruptRequested = FALSE
    /\ now = ClockStartTicks * granule
    /\ tpc = "none"
    /\ lastSyncTime = 0
    /\ lastSyncValue = 0
    /\ currentOESyncValue = 0
    /\ oeClockOffset = 0
    /\ lastSyncReceivedTime = 0
    /\ lastSyncReceiptCheckTime = 0
    /\ syncOut = 0
    /\ published = << >>
    /\ diag = "none"
    /\ fbPos = -1
    /\ offsetUpdates = 0
    /\ lastMatch = NoMatch
    /\ lastStallTime = [at |-> 0, count |-> 0]
    /\ afterInterrupt = [iters |-> 0, recvs |-> 0]
    /\ lastSession = NoSession
    /\ followsSynced = FALSE

InitAt(granule) ==
    /\ syncChannelsValues \in SyncChannelLists
    /\ syncChannels = Construct(syncChannelsValues)
    /\ syncChannels # ConstructionFailed
    /\ Unstarted(granule)

Init == InitAt(RecvTimeoutUS)

\* Before the constructor's body: any sync_channels list may be offered.
InitConstruct ==
    /\ syncChannelsValues \in SyncChannelLists
    /\ syncChannels = << >>
    /\ Unstarted(RecvTimeoutUS)

\* lines 98-112: the constructor's validation of sync_channels
Constructor ==
    /\ syncChannels = << >>
    /\ syncChannels' = Construct(syncChannelsValues)
    /\ UNCHANGED <<syncChannelsValues, spikes, lifeVars, thrVars, now, tpc,
                   localVars, outVars, histVars>>

\* the device exists: the constructor returned without throwing
Constructed == syncChannels \notin {<< >>, ConstructionFailed}

(***************************************************************************)
(* The host clock (Clock::getCurrentTimeUS) advances by one granule.       *)
(***************************************************************************)
Tick(granule, maxTicks) ==
    /\ now + granule <= maxTicks * granule
    /\ now' = now + granule
    /\ UNCHANGED <<cfgVars, lifeVars, thrVars, tpc, localVars, outVars, histVars>>

(***************************************************************************)
(* Lifecycle: initialize, startDeviceIO, stopDeviceIO.                     *)
(***************************************************************************)
Initialize(ok) ==
    /\ Constructed
    /\ socket = "none"
    /\ socket' = IF ok THEN "ready" ELSE "failed"
    /\ UNCHANGED <<cfgVars, connected, running, mutex, callerPc, lastResult,
                   thrVars, now, tpc, localVars, outVars, histVars>>

\* faulty variant: the body is entered without taking the mutex
EnterUnlocked(c) ==
    /\ socket = "ready"
    /\ callerPc[c] = "idle"

\* scoped_lock lock(mutex): the caller gets the mutex only when it is free;
\* the framework starts and stops a device only after initialize() succeeded
Enter(c) ==
    /\ socket = "ready"
    /\ callerPc[c] = "idle"
    /\ mutex = NoCaller

\* startDeviceIO while running: nothing but "return true"
StartNoop(c) ==
    /\ Enter(c)
    /\ running
    /\ lastResult' = Result("start", TRUE)
    /\ UNCHANGED <<cfgVars, socket, connected, running, mutex, callerPc,
                   thrVars, now, tpc, localVars, outVars, histVars>>

\* faulty variant: connects again although already running
StartConnectUnguarded(c, ok) ==
    /\ Enter(c)
    /\ IF ok
       THEN /\ connected' = TRUE
            /\ mutex' = c
            /\ callerPc' = [callerPc EXCEPT ![c] = "start_spawn"]
            /\ lastResult' = NoResult
       ELSE /\ lastResult' = Result("start", FALSE)
            /\ UNCHANGED <<connected, mutex, callerPc>>
    /\ UNCHANGED <<cfgVars, socket, running, thrVars, now, tpc, localVars,
                   outVars, histVars>>

\* startDeviceIO while not running: zmq_connect succeeds (ok) or fails
StartConnect(c, ok) ==
    /\ Enter(c)
    /\ ~running
    /\ IF ok
       THEN /\ connected' = TRUE
            /\ mutex' = c
            /\ callerPc' = [callerPc EXCEPT ![c] = "start_spawn"]
            /\ lastResult' = NoResult
       ELSE /\ lastResult' = Result("start", FALSE)
            /\ UNCHANGED <<connected, mutex, callerPc>>
    /\ UNCHANGED <<cfgVars, socket, running, thrVars, now, tpc, localVars,
                   outVars, histVars>>

\* eventHandlerThread = boost::thread(...); running = true; return true
StartSpawn(c) ==
    /\ callerPc[c] = "start_spawn"
    /\ mutex = c
    /\ thread' = "running"
    /\ interruptRequested' = FALSE
    /\ tpc' = "begin"
    /\ running' = TRUE
    /\ mutex' = NoCaller
    /\ callerPc' = [callerPc EXCEPT ![c] = "idle"]
    /\ lastResult' = Result("start", TRUE)
    /\ afterInterrupt' = [iters |-> 0, recvs |-> 0]
    /\ UNCHANGED <<cfgVars, socket, connected, now, localVars, outVars,
                   fbPos, offsetUpdates, lastMatch, lastStallTime, lastSession,
                   followsSynced>>

\* stopDeviceIO while not running: nothing but "return true"
StopNoop(c) ==
    /\ Enter(c)
    /\ ~running
    /\ lastResult' = Result("stop", TRUE)
    /\ UNCHANGED <<cfgVars, socket, connected, running, mutex, callerPc,
                   thrVars, now, tpc, localVars, outVars, histVars>>

\* faulty variant: the thread is interrupted but not joined before the disconnect
StopInterruptNoJoin(c) ==
    /\ Enter(c)
    /\ running
    /\ mutex' = c
    /\ lastResult' = NoResult
    /\ interruptRequested' = (thread # "none")
    /\ callerPc' = [callerPc EXCEPT ![c] = "stop_disconnect"]
    /\ UNCHANGED <<cfgVars, socket, connected, running, thread, now, tpc,
                   localVars, outVars, histVars>>

\* stopDeviceIO while running: terminateEventHandlerThread up to interrupt()
StopInterrupt(c) ==
    /\ Enter(c)
    /\ running
    /\ mutex' = c
    /\ lastResult' = NoResult
    /\ IF thread # "none"
       THEN /\ interruptRequested' = TRUE
            /\ callerPc' = [callerPc EXCEPT ![c] = "stop_join"]
       ELSE /\ UNCHANGED interruptRequested
            /\ callerPc' = [callerPc EXCEPT ![c] = "stop_disconnect"]
    /\ UNCHANGED <<cfgVars, socket, connected, running, thread, now, tpc,
                   localVars, outVars, histVars>>

\* eventHandlerThread.join() returns once the thread function has ended
StopJoin(c) ==
    /\ callerPc[c] = "stop_join"
    /\ mutex = c
    /\ thread = "done"
    /\ thread' = "none"
    /\ interruptRequested' = FALSE
    /\ callerPc' = [callerPc EXCEPT ![c] = "stop_disconnect"]
    /\ UNCHANGED <<cfgVars, socket, connected, running, mutex, lastResult, now,
                   tpc, localVars, outVars, histVars>>

\* zmq_disconnect succeeds (ok) or fails; running = false only on success
StopDisconnect(c, ok) ==
    /\ callerPc[c] = "stop_disconnect"
    /\ mutex = c
    /\ IF ok
       THEN /\ connected' = FALSE
            /\ running' = FALSE
       ELSE UNCHANGED <<connected, running>>
    /\ lastResult' = Result("stop", ok)
    /\ mutex' = NoCaller
    /\ callerPc' = [callerPc EXCEPT ![c] = "idle"]
    /\ UNCHANGED <<cfgVars, socket, thrVars, now, tpc, localVars, outVars,
                   histVars>>

(***************************************************************************)
(* The event-handler thread: handleEvents.                                 *)
(***************************************************************************)
\* history counters distinguish none, one, and more than one
Saturate(k) == IF k < 2 THEN k + 1 ELSE 2

\* history: loop iterations begun and receives performed after interrupt()
CountIteration ==
    IF interruptRequested
    THEN [afterInterrupt EXCEPT !.iters = Saturate(@)]
    ELSE afterInterrupt

CountReceive ==
    IF interruptRequested
    THEN [afterInterrupt EXCEPT !.recvs = Saturate(@)]
    ELSE afterInterrupt

\* faulty variant: the code sent and the clock offset are kept in members
\* of the device, which outlive the thread, and are not set anew
HandleEventsResume ==
    /\ thread = "running"
    /\ tpc = "begin"
    /\ lastSyncTime' = 0
    /\ lastSyncValue' = lastSession.lastSyncValue
    /\ currentOESyncValue' = 0
    /\ oeClockOffset' = lastSession.oeClockOffset
    /\ lastSyncReceivedTime' = now
    /\ lastSyncReceiptCheckTime' = now
    /\ tpc' = "drive"
    /\ diag' = "none"
    /\ published' = << >>
    /\ fbPos' = -1
    /\ offsetUpdates' = 0
    /\ lastMatch' = NoMatch
    /\ lastSession' = NoSession
    /\ followsSynced' = (lastSession.lastSyncValue # 0 /\ lastSession.oeClockOffset # 0)
    /\ UNCHANGED <<cfgVars, lifeVars, thrVars, now, syncOut, lastStallTime,
                   afterInterrupt>>

\* lines 204-213: the locals of handleEvents
HandleEventsBegin ==
    /\ thread = "running"
    /\ tpc = "begin"
    /\ lastSyncTime' = 0
    /\ lastSyncValue' = 0
    /\ currentOESyncValue' = 0
    /\ oeClockOffset' = 0
    /\ lastSyncReceivedTime' = now
    /\ lastSyncReceiptCheckTime' = now
    /\ tpc' = "drive"
    /\ diag' = "none"
    /\ published' = << >>
    /\ fbPos' = -1
    /\ offsetUpdates' = 0
    /\ lastMatch' = NoMatch
    /\ lastSession' = NoSession
    /\ followsSynced' = (lastSession.lastSyncValue # 0 /\ lastSession.oeClockOffset # 0)
    /\ UNCHANGED <<cfgVars, lifeVars, thrVars, now, syncOut, lastStallTime,
                   afterInterrupt>>

\* faulty variant: the interval must be exceeded, not merely reached
DriveDueStrict == lastSyncTime = 0 \/ now - lastSyncTime > syncInterval

\* line 216
DriveDue == lastSyncTime = 0 \/ now - lastSyncTime >= syncInterval

\* line 217
syncValue == (lastSyncValue + 1) % numSyncValues

\* lines 216-224: top of the loop; when due, compute and write the code
DriveStep ==
    /\ thread = "running"
    /\ tpc = "drive"
    /\ IF DriveDue
       THEN /\ syncOut' = reversedSyncValue(syncValue, Len(syncChannels))
            /\ tpc' = "stamp"
       ELSE /\ tpc' = "stall"
            /\ UNCHANGED syncOut
    /\ diag' = "none"
    /\ published' = << >>
    /\ afterInterrupt' = CountIteration
    /\ UNCHANGED <<cfgVars, lifeVars, thrVars, now, localVars, fbPos,
                   offsetUpdates, lastMatch, lastStallTime, lastSession,
                   followsSynced>>

\* lines 226-227: the time is read after setValue returned
DriveStamp ==
    /\ thread = "running"
    /\ tpc = "stamp"
    /\ lastSyncTime' = now
    /\ lastSyncValue' = syncValue
    /\ tpc' = "stall"
    /\ diag' = "none"
    /\ published' = << >>
    /\ fbPos' = 0
    /\ offsetUpdates' = 0
    /\ UNCHANGED <<cfgVars, lifeVars, thrVars, now, currentOESyncValue,
                   oeClockOffset, lastSyncReceivedTime, lastSyncReceiptCheckTime,
                   syncOut, lastMatch, lastStallTime, afterInterrupt,
                   lastSession, followsSynced>>

\* faulty variant: the check is timed from the last receipt, not the last check
StallDueSinceReceipt == now - lastSyncReceivedTime >= syncReceiptCheckInterval

\* line 232
StallDue == now - lastSyncReceiptCheckTime >= syncReceiptCheckInterval

\* lines 230-238
StallCheck ==
    /\ thread = "running"
    /\ tpc = "stall"
    /\ IF StallDue
       THEN /\ diag' = "stall"
            /\ lastSyncReceiptCheckTime' = now
            /\ lastStallTime' = [at |-> now, count |-> Saturate(lastStallTime.count)]
       ELSE /\ diag' = "none"
            /\ UNCHANGED <<lastSyncReceiptCheckTime, lastStallTime>>
    /\ tpc' = "recv"
    /\ published' = << >>
    /\ UNCHANGED <<cfgVars, lifeVars, thrVars, now, lastSyncTime, lastSyncValue,
                   currentOESyncValue, oeClockOffset, lastSyncReceivedTime,
                   syncOut, fbPos, offsetUpdates, lastMatch, afterInterrupt,
                   lastSession, followsSynced>>

\* the receive step leaves the loop at the interruption point
Receiving ==
    /\ thread = "running"
    /\ tpc = "recv"

AfterReceive ==
    /\ tpc' = "intr"
    /\ afterInterrupt' = CountReceive

\* faulty variant: no receive timeout is set, a silent receive never returns
RecvBlocksForever == FALSE

\* lines 245-253: zmq_recv fails with EAGAIN (the receive timeout)
RecvTimeout ==
    /\ Receiving
    /\ AfterReceive
    /\ diag' = "none"
    /\ published' = << >>
    /\ UNCHANGED <<cfgVars, lifeVars, thrVars, now, localVars, syncOut, fbPos,
                   offsetUpdates, lastMatch, lastStallTime, lastSession,
                   followsSynced>>

\* faulty variant: a transport error starts the synchronisation over
RecvErrorStartsOver ==
    /\ Receiving
    /\ AfterReceive
    /\ diag' = "recvfail"
    /\ published' = << >>
    /\ lastSyncTime' = 0
    /\ lastSyncValue' = 0
    /\ currentOESyncValue' = 0
    /\ UNCHANGED <<cfgVars, lifeVars, thrVars, now, oeClockOffset,
                   lastSyncReceivedTime, lastSyncReceiptCheckTime, syncOut,
                   fbPos, offsetUpdates, lastMatch, lastStallTime, lastSession,
                   followsSynced>>

\* lines 245-253: one of the three zmq_recv calls fails otherwise
RecvError ==
    /\ Receiving
    /\ AfterReceive
    /\ diag' = "recvfail"
    /\ published' = << >>
    /\ UNCHANGED <<cfgVars, lifeVars, thrVars, now, localVars, syncOut, fbPos,
                   offsetUpdates, lastMatch, lastStallTime, lastSession,
                   followsSynced>>

\* lines 256-257, 284: the first position whose channel is the event's
\* (1-based; 0 when the scan finds none)
RECURSIVE ScanFrom(_, _)
ScanFrom(eventChannel, i) ==
    IF i > Len(syncChannels) THEN 0
    ELSE IF eventChannel = syncChannels[i] THEN i
    ELSE ScanFrom(eventChannel, i + 1)

MatchedPosition(eventChannel) == ScanFrom(eventChannel, 1)

\* faulty variant: position i is given bit i
maskBitStraight(p) == p - 1

\* line 258: mask = 1 << (size - 1 - i), for the 1-based position p = i + 1
maskBit(p) == Len(syncChannels) - p

\* lines 259-263
ApplyLineState(value, eventID, p) ==
    IF eventID # 0 THEN OrMask(value, maskBit(p)) ELSE AndNotMask(value, maskBit(p))

\* faulty variant: the comparison is made at the first position
IsFirstPosition(p) == p = 1

\* line 265
IsLastPosition(p) == p = Len(syncChannels)

\* faulty variant: the offset is taken from the time of receipt
MatchOffsetAtReceipt(eventTimestamp) == now - secsToUS(eventTimestamp)

\* line 270
MatchOffset(eventTimestamp) == lastSyncTime - secsToUS(eventTimestamp)

\* faulty variant: the restart keeps the code that was sent
StartOverKeepsValue ==
    [lastSyncTime |-> 0, lastSyncValue |-> lastSyncValue, currentOESyncValue |-> 0]

\* faulty variant: the restart keeps the time of the last drive step
StartOverKeepsTime ==
    [lastSyncTime |-> lastSyncTime, lastSyncValue |-> 0, currentOESyncValue |-> 0]

\* lines 277-280: "Reset things and start over"
StartOver ==
    [lastSyncTime |-> 0, lastSyncValue |-> 0, currentOESyncValue |-> 0]

\* history: progress of an in-order echo of the driven code, one event per
\* configured position, line state at position p = bit (n - p) of the code
FeedbackAfter(eventID, eventChannel) ==
    IF \A i \in 1..Len(syncChannels) : syncChannels[i] # eventChannel
    THEN fbPos
    ELSE IF /\ fbPos >= 0
            /\ fbPos < Len(syncChannels)
            /\ eventChannel = syncChannels[fbPos + 1]
            /\ eventID = BitAt(lastSyncValue, Len(syncChannels) - (fbPos + 1))
         THEN fbPos + 1
         ELSE -1

\* lines 254-287: a TTL event
RecvTTL(eventID, eventChannel, eventTimestamp) ==
    /\ Receiving
    /\ AfterReceive
    /\ published' = << >>
    /\ fbPos' = FeedbackAfter(eventID, eventChannel)
    /\ LET p == MatchedPosition(eventChannel)
           value == ApplyLineState(currentOESyncValue, eventID, p)
       IN IF p = 0
          THEN /\ diag' = "none"
               /\ UNCHANGED <<localVars, offsetUpdates, lastMatch>>
          ELSE IF ~IsLastPosition(p)
          THEN /\ currentOESyncValue' = value
               /\ diag' = "none"
               /\ offsetUpdates' = IF fbPos' = -1 THEN 0 ELSE offsetUpdates
               /\ UNCHANGED <<lastSyncTime, lastSyncValue, oeClockOffset,
                              lastSyncReceivedTime, lastSyncReceiptCheckTime,
                              lastMatch>>
          ELSE /\ lastSyncReceivedTime' = now
               /\ lastSyncReceiptCheckTime' = now
               /\ IF value = lastSyncValue
                  THEN /\ oeClockOffset' = MatchOffset(eventTimestamp)
                       /\ currentOESyncValue' = value
                       /\ diag' = "none"
                       /\ offsetUpdates' =
                              IF fbPos' = -1 THEN 0 ELSE Saturate(offsetUpdates)
                       /\ lastMatch' = [sentTime |-> lastSyncTime,
                                        stamp |-> eventTimestamp,
                                        valid |-> TRUE]
                       /\ UNCHANGED <<lastSyncTime, lastSyncValue>>
                  ELSE /\ diag' = "mismatch"
                       /\ lastSyncTime' = StartOver.lastSyncTime
                       /\ lastSyncValue' = StartOver.lastSyncValue
                       /\ currentOESyncValue' = StartOver.currentOESyncValue
                       /\ offsetUpdates' = IF fbPos' = -1 THEN 0 ELSE offsetUpdates
                       /\ UNCHANGED <<oeClockOffset, lastMatch>>
    /\ UNCHANGED <<cfgVars, lifeVars, thrVars, now, syncOut, lastStallTime,
                   lastSession, followsSynced>>

\* the k low-order bytes of a non-negative value
RECURSIVE LowBytes(_, _)
LowBytes(value, k) ==
    IF k = 0 \/ value = 0 THEN 0
    ELSE (value % 256) + 256 * LowBytes(value \div 256, k - 1)

\* lines 243, 247: event is zeroed, then zmq_recv copies at most
\* sizeof(event) bytes of the payload into it and reports no error for a
\* shorter or longer payload; a little-endian field of the given width at
\* the given offset keeps the bytes the payload covers
FieldRead(value, offset, width, size) ==
    LET covered == IF size <= offset THEN 0
                   ELSE IF size >= offset + width THEN width
                   ELSE size - offset
    IN LowBytes(value, covered)

\* the Spike struct of lines 41-51 as read from the receive buffer
DecodeSpike(spike) ==
    [timestamp |-> FieldRead(spike.timestamp, 0, 8, spike.size),
     sortedID |-> FieldRead(spike.sortedID, 22, 2, spike.size),
     electrodeID |-> FieldRead(spike.electrodeID, 24, 2, spike.size),
     channel |-> FieldRead(spike.channel, 26, 2, spike.size)]

\* faulty variant: the spike is published at the uncorrected remote time
SpikeTimeUncorrected(eventTimestamp) == secsToUS(eventTimestamp)

\* line 296
SpikeTime(eventTimestamp) == secsToUS(eventTimestamp) + oeClockOffset

\* lines 291-296
SpikeInfo(spike, eventTimestamp) ==
    [oe_timestamp |-> DecodeSpike(spike).timestamp,
     sorted_id |-> DecodeSpike(spike).sortedID,
     electrode_id |-> DecodeSpike(spike).electrodeID,
     channel |-> DecodeSpike(spike).channel,
     time |-> SpikeTime(eventTimestamp)]

\* lines 288-297: a spike event
RecvSpike(spike, eventTimestamp) ==
    /\ Receiving
    /\ AfterReceive
    /\ published' = IF spikes THEN <<SpikeInfo(spike, eventTimestamp)>> ELSE << >>
    /\ diag' = "none"
    /\ UNCHANGED <<cfgVars, lifeVars, thrVars, now, localVars, syncOut, fbPos,
                   offsetUpdates, lastMatch, lastStallTime, lastSession,
                   followsSynced>>

\* lines 299-303: any other type tag
RecvOther(eventType) ==
    /\ Receiving
    /\ AfterReceive
    /\ eventType \notin {TTL, SPIKE}
    /\ diag' = "unexpected"
    /\ published' = << >>
    /\ UNCHANGED <<cfgVars, lifeVars, thrVars, now, localVars, syncOut, fbPos,
                   offsetUpdates, lastMatch, lastStallTime, lastSession,
                   followsSynced>>

\* faulty variant: the loop never looks at the interruption request
InterruptionIgnored == FALSE

\* line 306: whether interruption_point() throws thread_interrupted
InterruptionPending == interruptRequested

\* line 306: boost::this_thread::interruption_point(); thread_interrupted
\* unwinds handleEvents and ends the thread function
InterruptionPoint ==
    /\ thread = "running"
    /\ tpc = "intr"
    /\ diag' = "none"
    /\ published' = << >>
    /\ IF InterruptionPending
       THEN /\ thread' = "done"
            /\ tpc' = "none"
            /\ lastSyncTime' = 0
            /\ lastSyncValue' = 0
            /\ currentOESyncValue' = 0
            /\ oeClockOffset' = 0
            /\ lastSyncReceivedTime' = 0
            /\ lastSyncReceiptCheckTime' = 0
            /\ fbPos' = -1
            /\ offsetUpdates' = 0
            /\ lastMatch' = NoMatch
            /\ lastSession' = [lastSyncValue |-> lastSyncValue,
                               oeClockOffset |-> oeClockOffset]
            /\ followsSynced' = FALSE
       ELSE /\ tpc' = "drive"
            /\ UNCHANGED <<thread, localVars, fbPos, offsetUpdates, lastMatch,
                           lastSession, followsSynced>>
    /\ UNCHANGED <<cfgVars, lifeVars, interruptRequested, now, syncOut,
                   lastStallTime, afterInterrupt>>

(***************************************************************************)
(* Specifications.                                                         *)
(***************************************************************************)
Lifecycle ==
    \/ \E ok \in BOOLEAN : Initialize(ok)
    \/ \E c \in Callers : StartNoop(c)
    \/ \E c \in Callers, ok \in BOOLEAN : StartConnect(c, ok)
    \/ \E c \in Callers : StartSpawn(c)
    \/ \E c \in Callers : StopNoop(c)
    \/ \E c \in Callers : StopInterrupt(c)
    \/ \E c \in Callers : StopJoin(c)
    \/ \E c \in Callers, ok \in BOOLEAN : StopDisconnect(c, ok)

Housekeeping ==
    \/ HandleEventsBegin
    \/ DriveStep
    \/ DriveStamp
    \/ StallCheck
    \/ InterruptionPoint

Silence ==
    \/ RecvTimeout

Messages(stamps) ==
    \/ RecvError
    \/ \E eventID \in LineStates, eventChannel \in EventChannels,
          eventTimestamp \in stamps :
            RecvTTL(eventID, eventChannel, eventTimestamp)
    \/ \E spike \in SpikePayloads, eventTimestamp \in stamps :
            RecvSpike(spike, eventTimestamp)
    \/ \E eventType \in OtherTags : RecvOther(eventType)

Next ==
    \/ Tick(RecvTimeoutUS, MaxTicks)
    \/ Lifecycle
    \/ Housekeeping
    \/ Silence
    \/ Messages(RemoteStamps)

Spec == Init /\ [][Next]_vars

\* The thread is scheduled and every receive returns (a message, an error,
\* or the timeout set by initialize); a join returns once the thread ended.
ThreadStep == Housekeeping \/ Silence \/ Messages(RemoteStamps)

JoinStep == \E c \in Callers : StopJoin(c)

FairSpec == Spec /\ WF_vars(ThreadStep) /\ WF_vars(JoinStep)

\* From before construction.
NextConstruct ==
    \/ Constructor
    \/ Next

SpecConstruct == InitConstruct /\ [][NextConstruct]_vars

\* The drive step for every number of sync channels and every code: a
\* session on channels 1..n that began at the first clock granule, has
\* driven a code every syncInterval, timed out on every receive and never
\* got an event, one interval after it drove lastSyncValue.
DrivesSoFar(n, v) == IF v = 0 THEN Pow2(n) ELSE v

SilentSessionAt(n, v) ==
    LET began == ClockStartTicks * RecvTimeoutUS
        driven == began + (DrivesSoFar(n, v) - 1) * syncInterval
        checks == (driven + syncInterval - RecvTimeoutUS - began)
                      \div syncReceiptCheckInterval
    IN /\ syncChannelsValues = [i \in 1..n |-> i]
       /\ syncChannels = Construct(syncChannelsValues)
       /\ spikes = FALSE
       /\ socket = "ready"
       /\ connected = TRUE
       /\ running = TRUE
       /\ mutex = NoCaller
       /\ callerPc = [c \in Callers |-> "idle"]
       /\ lastResult = Result("start", TRUE)
       /\ thread = "running"
       /\ interruptRequested = FALSE
       /\ now = driven + syncInterval
       /\ tpc = "drive"
       /\ lastSyncTime = driven
       /\ lastSyncValue = v
       /\ currentOESyncValue = 0
       /\ oeClockOffset = 0
       /\ lastSyncReceivedTime = began
       /\ lastSyncReceiptCheckTime = began + checks * syncReceiptCheckInterval
       /\ syncOut = reversedSyncValue(v, n)
       /\ published = << >>
       /\ diag = "none"
       /\ fbPos = 0
       /\ offsetUpdates = 0
       /\ lastMatch = NoMatch
       /\ lastStallTime =
              [at |-> IF checks = 0 THEN 0
                      ELSE began + checks * syncReceiptCheckInterval,
               count |-> IF checks < 2 THEN checks ELSE 2]
       /\ afterInterrupt = [iters |-> 0, recvs |-> 0]
       /\ lastSession = NoSession
       /\ followsSynced = FALSE

InitEncode ==
    \E n \in 1..MaxSyncChannelNumber :
        \E v \in 0..(Pow2(n) - 1) : SilentSessionAt(n, v)

NextEncode ==
    \/ DriveStep
    \/ DriveStamp

SpecEncode == InitEncode /\ [][NextEncode]_vars

\* Long horizon: the clock advances by half a stall-check interval, and
\* every message carries the same remote timestamp.
InitStall == InitAt(CoarseTickUS)

StallStamps == {1000002}

NextStall ==
    \/ Tick(CoarseTickUS, MaxStallTicks)
    \/ Lifecycle
    \/ Housekeeping
    \/ Silence
    \/ Messages(StallStamps)

SpecStall == InitStall /\ [][NextStall]_vars

\* Total silence from the acquisition application: every receive times out.
NextSilent ==
    \/ Tick(CoarseTickUS, MaxStallTicks)
    \/ Lifecycle
    \/ Housekeeping
    \/ Silence

SpecSilent ==
    InitStall /\ [][NextSilent]_vars /\ WF_vars(Housekeeping \/ Silence)

(***************************************************************************)
(* Properties.                                                             *)
(***************************************************************************)
StrictlyAscending(channels) ==
    \A i \in 1..(Len(channels) - 1) : channels[i] < channels[i + 1]

ExpectedOffset ==
    IF lastMatch.valid
    THEN lastMatch.sentTime - secsToUS(lastMatch.stamp)
    ELSE 0

\* C1: round trip. After a drive step set sent = c, an in-order echo of one
\* TTL event per configured position (line state at position i = bit
\* n-1-i of c), with no drive step in between, ends with received = sent
\* and exactly one ClockOffset update, and none before the last event.
RoundTrip ==
    /\ (fbPos = Len(syncChannels) =>
            /\ currentOESyncValue = lastSyncValue
            /\ offsetUpdates = 1)
    /\ (fbPos \in 0..(Len(syncChannels) - 1) => offsetUpdates = 0)

\* The round trip where the configured channel numbers are strictly
\* ascending (what the constructor is meant to enforce).
RoundTripAscending == StrictlyAscending(syncChannels) => RoundTrip

RoundTripAscendingWitness ==
    /\ StrictlyAscending(syncChannels)
    /\ Len(syncChannels) = 2
    /\ fbPos = 2
    /\ lastSyncValue = 2

\* C2: mismatch recovery. A TTL event handled at the last position that
\* completes a code different from sent resets sent, received and
\* lastSentTime to 0; the interruption point, unless the thread is
\* interrupted, keeps them; and the next top of the loop then performs the
\* drive step whatever the clock reads.
MismatchAt(eventID, eventChannel) ==
    /\ IsLastPosition(MatchedPosition(eventChannel))
    /\ ApplyLineState(currentOESyncValue, eventID, MatchedPosition(eventChannel))
           # lastSyncValue

MismatchRecovery ==
    /\ [][\A eventID \in LineStates, eventChannel \in EventChannels,
             eventTimestamp \in RemoteStamps :
               (RecvTTL(eventID, eventChannel, eventTimestamp)
                    /\ MismatchAt(eventID, eventChannel))
               => /\ lastSyncTime' = 0
                  /\ lastSyncValue' = 0
                  /\ currentOESyncValue' = 0
                  /\ diag' = "mismatch"]_vars
    /\ [][(InterruptionPoint /\ diag = "mismatch" /\ ~interruptRequested)
               => /\ tpc' = "drive"
                  /\ lastSyncTime' = 0
                  /\ lastSyncValue' = 0]_vars
    /\ [][(DriveStep /\ lastSyncTime = 0)
               => /\ tpc' = "stamp"
                  /\ syncOut' = reversedSyncValue((lastSyncValue + 1) % numSyncValues,
                                                  Len(syncChannels))]_vars

\* the re-drive after a mismatch (a match came earlier in the session, so
\* lastSyncTime = 0 stems from the reset), at the clock reading of the
\* mismatching event
MismatchRecoveryWitness ==
    /\ tpc = "stamp"
    /\ lastSyncTime = 0
    /\ lastMatch.valid
    /\ lastSyncReceivedTime = now

\* C3: ClockOffset is lastSentTime minus the remote timestamp (in
\* microseconds) of the most recent verified match of this session, 0 before
\* the first match; nothing else changes it.
ClockOffsetIsLastMatch == oeClockOffset = ExpectedOffset

\* a match, then a mismatch: the matched offset is still in force
ClockOffsetIsLastMatchWitness ==
    /\ lastMatch.valid
    /\ diag = "mismatch"
    /\ oeClockOffset # 0

\* C4: with a spike sink configured, every spike event is published exactly
\* once, in the iteration that received it, at remote timestamp + the
\* offset of the last match (0 before the first); no other step publishes.
SpikeForwarding ==
    /\ [][\A spike \in SpikePayloads, eventTimestamp \in RemoteStamps :
               (RecvSpike(spike, eventTimestamp) /\ spikes)
               => published' =
                      <<[oe_timestamp |-> spike.timestamp,
                         sorted_id |-> spike.sortedID,
                         electrode_id |-> spike.electrodeID,
                         channel |-> spike.channel,
                         time |-> secsToUS(eventTimestamp) + ExpectedOffset]>>]_vars
    /\ [][\/ \E spike \in SpikePayloads, eventTimestamp \in RemoteStamps :
                  RecvSpike(spike, eventTimestamp)
          \/ ThreadStep /\ published' = << >>
          \/ ~ThreadStep /\ UNCHANGED published]_vars

\* a spike forwarded with the offset of an earlier match
SpikeForwardingWitness ==
    /\ published # << >>
    /\ lastMatch.valid
    /\ oeClockOffset # 0
    /\ published[1].time = secsToUS(1000002) + oeClockOffset

\* C5: the bodies of startDeviceIO and stopDeviceIO never overlap, and a
\* thread is spawned only when no earlier thread is left unjoined.
InBody(c) == callerPc[c] # "idle"

SerializedLifecycle ==
    /\ \A c, d \in Callers : (InBody(c) /\ InBody(d)) => c = d
    /\ \A c \in Callers : InBody(c) <=> mutex = c
    /\ \A c \in Callers : callerPc[c] = "start_spawn" => thread = "none"

\* a second start is about to spawn after an earlier session was stopped
SerializedLifecycleWitness ==
    /\ \E c \in Callers : callerPc[c] = "start_spawn"
    /\ lastStallTime.count > 0 \/ syncOut # 0

\* C6: start while running and stop while stopped return success and
\* connect, disconnect, spawn and interrupt nothing.
StartCall(c) == StartNoop(c) \/ \E ok \in BOOLEAN : StartConnect(c, ok)

StopCall(c) == StopNoop(c) \/ StopInterrupt(c)

LifecycleUntouched ==
    UNCHANGED <<socket, connected, running, mutex, callerPc, thread,
                interruptRequested, tpc>>

Idempotence ==
    [][\A c \in Callers :
          /\ (running /\ StartCall(c))
                => (lastResult' = Result("start", TRUE) /\ LifecycleUntouched)
          /\ (~running /\ StopCall(c))
                => (lastResult' = Result("stop", TRUE) /\ LifecycleUntouched)]_vars

\* a start that found the device running (here after a failed disconnect)
IdempotenceWitness ==
    /\ running
    /\ thread = "none"
    /\ lastResult = Result("start", TRUE)

\* C7: after interrupt() the thread begins at most one more iteration and
\* performs at most one more receive, and the join in stop completes.
BoundedCancellation ==
    /\ [](afterInterrupt.iters <= 1 /\ afterInterrupt.recvs <= 1)
    /\ \A c \in Callers :
          (callerPc[c] = "stop_join") ~> (callerPc[c] = "stop_disconnect")

\* the request arrived after the interruption point was passed
BoundedCancellationWitness ==
    /\ thread = "done"
    /\ afterInterrupt.iters = 1
    /\ afterInterrupt.recvs = 1

\* C8: the socket is connected whenever the thread is alive, a thread is
\* spawned only after a successful connect, and the disconnect comes after
\* the join.
ConnectedWhileAlive ==
    /\ thread = "running" => connected
    /\ \A c \in Callers : callerPc[c] = "start_spawn" => connected
    /\ \A c \in Callers : callerPc[c] = "stop_disconnect" => thread = "none"

\* stop has interrupted the thread, which is still in its receive
ConnectedWhileAliveWitness ==
    /\ \E c \in Callers : callerPc[c] = "stop_join"
    /\ thread = "running"
    /\ tpc = "recv"

\* C9: a stall diagnostic is emitted only when now - lastReceivedTime >=
\* syncReceiptCheckInterval, and at least syncReceiptCheckInterval after the
\* previous one.
StallDetection ==
    [][(StallCheck /\ diag' = "stall")
          => /\ now - lastSyncReceivedTime >= syncReceiptCheckInterval
             /\ lastStallTime.count > 0
                   => now - lastStallTime.at >= syncReceiptCheckInterval]_vars

\* a second stall diagnostic
StallDetectionWitness ==
    /\ diag = "stall"
    /\ lastStallTime.count = 2

\* C10: under silence, while the thread runs and is not interrupted, a due
\* drive step and a due stall check are always eventually performed.
Uncancelled == thread = "running" /\ tpc # "begin" /\ ~interruptRequested

HousekeepingRecurs ==
    /\ (Uncancelled /\ DriveDue) ~> (~Uncancelled \/ ~DriveDue)
    /\ (Uncancelled /\ StallDue) ~> (~Uncancelled \/ diag = "stall")

\* a drive step and a stall diagnostic have recurred
HousekeepingRecursWitness ==
    /\ Uncancelled
    /\ diag = "stall"
    /\ lastStallTime.count = 2
    /\ lastSyncValue = 2

\* C11: a receive that ends in the timeout, in a transport error or in a
\* message with an unrecognized type tag leaves sent, received,
\* lastSentTime, lastReceivedTime, lastReceiptCheckTime and ClockOffset as
\* the iteration's drive step and stall check left them, publishes nothing,
\* and the loop goes on to its interruption point.
FruitlessReceive ==
    \/ RecvTimeout
    \/ RecvError
    \/ \E eventType \in OtherTags : RecvOther(eventType)

FruitlessReceiveFrame ==
    [][FruitlessReceive
          => /\ UNCHANGED <<lastSyncTime, lastSyncValue, currentOESyncValue,
                            oeClockOffset, lastSyncReceivedTime,
                            lastSyncReceiptCheckTime>>
             /\ published' = << >>
             /\ thread' = "running"
             /\ tpc' = "intr"]_vars

\* a transport error in a session that is synchronised (a code is out, a
\* match set the offset)
FruitlessReceiveFrameWitness ==
    /\ diag = "recvfail"
    /\ tpc = "intr"
    /\ lastSyncTime # 0
    /\ lastSyncValue # 0
    /\ oeClockOffset # 0

\* C12: the payload length is validated before decoding. A Spike message
\* whose payload has exactly the size of the struct (28 bytes) reaches the
\* spike sink with its timestamp, sortedId, electrodeId and channel
\* unchanged; one of any other length (27 bytes) is dropped with a
\* diagnostic and publishes nothing.
PayloadLengthValidated ==
    [][\A spike \in SpikePayloads, eventTimestamp \in RemoteStamps :
          (RecvSpike(spike, eventTimestamp) /\ spikes)
          => IF spike.size = SpikeSize
             THEN /\ published' # << >>
                  /\ published'[1].oe_timestamp = spike.timestamp
                  /\ published'[1].sorted_id = spike.sortedID
                  /\ published'[1].electrode_id = spike.electrodeID
                  /\ published'[1].channel = spike.channel
             ELSE /\ published' = << >>
                  /\ diag' # "none"]_vars

\* What the code does: a payload of the struct's size is published with
\* its fields unchanged.
WholePayloadForwarded ==
    [][\A spike \in SpikePayloads, eventTimestamp \in RemoteStamps :
          (RecvSpike(spike, eventTimestamp) /\ spikes /\ spike.size = SpikeSize)
          => /\ published' # << >>
             /\ published'[1].oe_timestamp = spike.timestamp
             /\ published'[1].sorted_id = spike.sortedID
             /\ published'[1].electrode_id = spike.electrodeID
             /\ published'[1].channel = spike.channel]_vars

\* C13: synchronisation state does not survive a restart. A new thread
\* begins with sent = 0, received = 0, lastSentTime = 0 and ClockOffset = 0
\* whatever the thread before it ended with, and a spike that arrives
\* before the first match of the session is forwarded at its remote
\* timestamp alone (offset 0).
FreshSession ==
    /\ [][HandleEventsBegin
              => /\ lastSyncTime' = 0
                 /\ lastSyncValue' = 0
                 /\ currentOESyncValue' = 0
                 /\ oeClockOffset' = 0]_vars
    /\ []((published # << >> /\ ~lastMatch.valid)
              => published[1].time \in {secsToUS(s) : s \in RemoteStamps})

\* the session before ended with a code out and an offset in force; in
\* the new session a spike has come before any match
FreshSessionWitness ==
    /\ thread = "running"
    /\ followsSynced
    /\ ~lastMatch.valid
    /\ published # << >>

\* C14: construction succeeds if and only if the sync channel list is
\* non-empty, every number is in 1..8 and the numbers are strictly
\* ascending; on success the stored channels are the list with 1 subtracted
\* from each element, in the same order; on failure the device is never
\* initialized or started.
ValidConfiguration(values) ==
    /\ Len(values) >= 1
    /\ \A i \in 1..Len(values) : values[i] \in 1..MaxSyncChannelNumber
    /\ StrictlyAscending(values)

ConstructionValidation ==
    syncChannels # << >>
    => /\ (syncChannels # ConstructionFailed) <=> ValidConfiguration(syncChannelsValues)
       /\ ValidConfiguration(syncChannelsValues)
             => syncChannels = [i \in 1..Len(syncChannelsValues) |->
                                    syncChannelsValues[i] - 1]
       /\ syncChannels = ConstructionFailed
             => (socket = "none" /\ ~running /\ thread = "none")

\* What the code does: a list is accepted if and only if it is non-empty,
\* every number is in 1..8 and each number is at least its predecessor
\* (a number may repeat).
NonDescending(values) ==
    \A i \in 1..(Len(values) - 1) : values[i] <= values[i + 1]

ConstructionAsCoded ==
    syncChannels # << >>
    => /\ (syncChannels # ConstructionFailed)
             <=> /\ Len(syncChannelsValues) >= 1
                 /\ \A i \in 1..Len(syncChannelsValues) :
                        syncChannelsValues[i] \in 1..MaxSyncChannelNumber
                 /\ NonDescending(syncChannelsValues)
       /\ syncChannels # ConstructionFailed
             => syncChannels = [i \in 1..Len(syncChannelsValues) |->
                                    syncChannelsValues[i] - 1]
       /\ syncChannels = ConstructionFailed
             => (socket = "none" /\ ~running /\ thread = "none")

\* C15: at the top of an iteration a drive step happens if and only if
\* lastSentTime = 0 or now - lastSentTime >= syncInterval, whether or not
\* the code driven before was echoed or matched; it writes the output once
\* (nothing else writes it), advances sent to (sent + 1) mod 2^n and records
\* as lastSentTime a clock reading taken after the write.
NextCode == (lastSyncValue + 1) % Pow2(Len(syncChannels))

DriveStepContract ==
    /\ [][DriveStep
              => ((tpc' = "stamp")
                     <=> (lastSyncTime = 0 \/ now - lastSyncTime >= syncInterval))]_vars
    /\ [][(DriveStep /\ tpc' # "stamp")
              => (tpc' = "stall" /\ UNCHANGED <<syncOut, lastSyncTime, lastSyncValue>>)]_vars
    /\ [][syncOut' # syncOut => (DriveStep /\ tpc' = "stamp")]_vars
    /\ [](tpc = "stamp"
              => syncOut = reversedSyncValue(NextCode, Len(syncChannels)))
    /\ [][DriveStamp
              => /\ lastSyncValue' = NextCode
                 /\ lastSyncTime' = now
                 /\ UNCHANGED syncOut]_vars

\* the second code of a session (2, written as 1 on two channels) has just
\* been driven although no code was ever matched
DriveStepContractWitness ==
    /\ tpc = "stall"
    /\ Len(syncChannels) = 2
    /\ lastSyncValue = 2
    /\ lastSyncTime = now
    /\ ~lastMatch.valid
    /\ lastStallTime.count = 0
    /\ syncOut = 1

\* C16: for every n in 1..8 and every code, the value a drive step writes
\* is the n-bit reversal of the code: bit j of the written value is bit
\* n-1-j of the code and no bit at or above n is set, so with output bit j
\* on the channel at position j the first configured channel carries the
\* top bit; the receive side (position i sets bit n-1-i) maps the written
\* lines back to the code.
RECURSIVE EchoFrom(_, _, _)
EchoFrom(received, written, p) ==
    IF p > Len(syncChannels) THEN received
    ELSE EchoFrom(ApplyLineState(received, BitAt(written, p - 1), p), written, p + 1)

OutputEncoding ==
    tpc = "stamp"
    => LET n == Len(syncChannels)
           code == (lastSyncValue + 1) % Pow2(n)
       IN /\ syncOut \in 0..(Pow2(n) - 1)
          /\ \A j \in 0..(n - 1) : BitAt(syncOut, j) = BitAt(code, n - 1 - j)
          /\ EchoFrom(0, syncOut, 1) = code
          /\ EchoFrom(Pow2(n) - 1, syncOut, 1) = code

\* eight channels, code 6 (binary 00000110) written as 96 (01100000)
OutputEncodingWitness ==
    /\ tpc = "stamp"
    /\ Len(syncChannels) = MaxSyncChannelNumber
    /\ lastSyncValue = 5
    /\ syncOut = 96

\* a TTL step made the comparison of received with sent: it reported a
\* mismatch or recorded a match
Compared == diag' = "mismatch" \/ lastMatch' # lastMatch

\* C17 as stated: the channel whose TTL event triggers the comparison of
\* received with sent is the first-configured channel, the one that
\* carries the most significant bit of the code.
ComparisonOnFirstChannel ==
    [][\A eventID \in LineStates, eventChannel \in EventChannels,
          eventTimestamp \in RemoteStamps :
            (RecvTTL(eventID, eventChannel, eventTimestamp) /\ Compared)
            => /\ eventChannel = syncChannels[1]
               /\ maskBit(MatchedPosition(eventChannel)) = Len(syncChannels) - 1]_vars

\* C17: the channel whose TTL event triggers the comparison of received
\* with sent is the one at the last position of the list, the
\* last-configured channel, which carries the least significant bit (bit
\* 0) of the code; an event the scan finds at the last position always
\* triggers it.
ComparisonOnLastChannel ==
    /\ [][\A eventID \in LineStates, eventChannel \in EventChannels,
              eventTimestamp \in RemoteStamps :
                (RecvTTL(eventID, eventChannel, eventTimestamp) /\ Compared)
                => /\ eventChannel = syncChannels[Len(syncChannels)]
                   /\ \A i \in 1..(Len(syncChannels) - 1) :
                          syncChannels[i] # eventChannel
                   /\ lastMatch' # lastMatch
                         => /\ BitAt(currentOESyncValue', 0) = eventID
                            /\ currentOESyncValue' \div 2 = currentOESyncValue \div 2]_vars
    /\ [][\A eventID \in LineStates, eventChannel \in EventChannels,
              eventTimestamp \in RemoteStamps :
                (/\ RecvTTL(eventID, eventChannel, eventTimestamp)
                 /\ eventChannel = syncChannels[Len(syncChannels)]
                 /\ \A i \in 1..(Len(syncChannels) - 1) :
                        syncChannels[i] # eventChannel)
                => /\ lastSyncReceivedTime' = now
                   /\ diag' = "mismatch" \/ lastMatch'.valid]_vars

\* two distinct channels; the event for the second one completed a code
\* that is not the one sent
ComparisonOnLastChannelWitness ==
    /\ Len(syncChannels) = 2
    /\ syncChannels[1] # syncChannels[2]
    /\ tpc = "intr"
    /\ diag = "mismatch"
    /\ lastSyncTime = 0

\* the positions (1-based) of a channel in the configured list, and the
\* first of them
PositionsOf(eventChannel) ==
    {i \in 1..Len(syncChannels) : syncChannels[i] = eventChannel}

FirstOf(positions) == CHOOSE i \in positions : \A j \in positions : i <= j

\* C18: received is compared with sent only when the TTL event is for the
\* channel at the last position. A TTL event for a sync channel at position
\* i < n-1 sets (line state 1) or clears (0) bit n-1-i of received and
\* changes nothing else: no comparison, offset update, reset or timing
\* update, whether or not received now equals sent. A TTL event for a
\* channel that is not in the list changes no state at all.
NonLastTTLFrame ==
    [][\A eventID \in LineStates, eventChannel \in EventChannels,
          eventTimestamp \in RemoteStamps :
            RecvTTL(eventID, eventChannel, eventTimestamp)
            => LET n == Len(syncChannels)
                   at == PositionsOf(eventChannel)
               IN /\ at = {}
                        => /\ UNCHANGED <<lastSyncTime, lastSyncValue,
                                          currentOESyncValue, oeClockOffset,
                                          lastSyncReceivedTime,
                                          lastSyncReceiptCheckTime, syncOut,
                                          lastMatch>>
                           /\ diag' = "none"
                           /\ published' = << >>
                  /\ (at # {} /\ FirstOf(at) < n)
                        => /\ currentOESyncValue' \in 0..(Pow2(n) - 1)
                           /\ \A k \in 0..(n - 1) :
                                 BitAt(currentOESyncValue', k) =
                                    IF k = n - FirstOf(at)
                                    THEN (IF eventID # 0 THEN 1 ELSE 0)
                                    ELSE BitAt(currentOESyncValue, k)
                           /\ UNCHANGED <<lastSyncTime, lastSyncValue,
                                          oeClockOffset, lastSyncReceivedTime,
                                          lastSyncReceiptCheckTime, syncOut,
                                          lastMatch>>
                           /\ diag' = "none"
                           /\ published' = << >>
                  /\ Compared => n \in at]_vars

\* the event for the first of two channels made received equal to the
\* code sent (2), and no comparison was made
NonLastTTLFrameWitness ==
    /\ Len(syncChannels) = 2
    /\ tpc = "intr"
    /\ diag = "none"
    /\ lastSyncValue = 2
    /\ currentOESyncValue = 2
    /\ ~lastMatch.valid
    /\ lastSyncReceivedTime < lastSyncTime

\* C19: whenever no start or stop call is in progress, the running flag is
\* true if and only if a processing thread is alive, also after a start
\* whose connect failed and a stop whose disconnect failed; a start that
\* returned success has left a live thread behind.
NoCallInProgress == \A c \in Callers : callerPc[c] = "idle"

RunningIffThreadAlive ==
    NoCallInProgress
    => /\ running <=> thread = "running"
       /\ lastResult = Result("start", TRUE) => thread = "running"

\* What the code keeps: a live thread implies the running flag, and without
\* the flag there is no thread.
AliveImpliesRunning ==
    NoCallInProgress => (thread # "none" => (running /\ thread = "running"))

\* C20: at every iteration boundary lastSentTime = 0 implies sent = 0 and
\* received = 0; at every receive step lastSentTime # 0, a drive step having
\* run since the last reset; so no ClockOffset is computed from the
\* sentinel 0 (the clock never reads 0).
SentinelInvariant ==
    /\ (thread = "running" /\ tpc \in {"drive", "intr"} /\ lastSyncTime = 0)
          => (lastSyncValue = 0 /\ currentOESyncValue = 0)
    /\ (thread = "running" /\ tpc \in {"stall", "recv"}) => lastSyncTime # 0
    /\ lastMatch.valid => lastMatch.sentTime # 0

\* after a match, a mismatch reset the state and the first code was driven
\* again at a later time; the thread is at its receive
SentinelInvariantWitness ==
    /\ Len(syncChannels) = 2
    /\ tpc = "recv"
    /\ lastMatch.valid
    /\ lastSyncValue = 1
    /\ lastSyncTime > lastMatch.sentTime

====
